---------------------------- MODULE Spec2Model ----------------------------
(***************************************************************************)
(* A model of twtGUI's timeline pipeline (src/src/utils/timeline.ts) and   *)
(* of the window handling of its Electron main process                     *)
(* (src/electron/main.cjs).                                                *)
(*                                                                         *)
(* A JavaScript string is a sequence of one-character strings.  The three  *)
(* characters of the mangled delimiter and the delimiter itself are named  *)
(* by their code points ("U00E2", "U017E", "U00A4" and "U27A4").  The      *)
(* literal pieces of formatLinks' templates are kept as single elements of *)
(* the output sequence (A_OPEN, A_MID, ...): an element of the output that *)
(* is one character long was copied from the message, an element that is a *)
(* template piece was written by the formatter.                            *)
(***************************************************************************)
EXTENDS Integers, Sequences, FiniteSets, TLC

VARIABLES
  pc,          \* where the run stands: "start", "fetched", "done", "window"
  pieces,      \* how the feed text was put together (preamble and entries)
  timeline,    \* the feed text handed to formatTimeline
  entries,     \* what formatTimeline returned
  parts,       \* how the message was put together (text and URLs)
  message,     \* the message handed to formatLinks
  formatted,   \* what formatLinks returned
  response,    \* what fetch(url) does: a status and a body, or a throw
  mainWindow,  \* main.cjs: the mainWindow variable, "window" or "null"
  winState,    \* the BrowserWindow: "open", "closing" or "destroyed"
  maximized,   \* the BrowserWindow's maximized flag
  ipc,         \* IPC requests of the renderer not yet handled, in order
  platform,    \* process.platform
  app,         \* "running", "windowless" (macOS, no window left) or "quit"
  lastCall     \* the window method the last handler called, and on what

vars == <<pc, pieces, timeline, entries, parts, message, formatted, response,
          mainWindow, winState, maximized, ipc, platform, app, lastCall>>

timelineVars == <<pieces, timeline, entries>>
linkVars == <<parts, message, formatted>>
windowVars == <<mainWindow, winState, maximized, ipc, platform, app, lastCall>>

-----------------------------------------------------------------------------
(* Bounds *)

\* Entries (delimiter-introduced chunks) in a generated feed.
MaxEntries == 2

\* Entries in a generated feed whose chunks come from the short list.
MaxInterleaved == 3

\* Parts (text runs and URLs) in a generated message.
MaxParts == 3

\* IPC requests of the renderer that may be waiting in the main process.
MaxInFlight == 3

-----------------------------------------------------------------------------
(* Characters and strings *)

\* What \s matches (and what trim() removes) among the characters used here.
WhiteSpace == {" ", "\t", "\n", "\r"}

\* What . does not match.
LineTerminators == {"\n", "\r"}

RECURSIVE Concat(_)
Concat(ss) == IF ss = <<>> THEN <<>> ELSE Head(ss) \o Concat(Tail(ss))

Min(S) == CHOOSE m \in S : \A n \in S : m <= n

\* s.substring(a - 1, b): the characters a..b, empty when b < a.
Sub(s, a, b) == IF b < a THEN <<>> ELSE SubSeq(s, a, b)

\* pat occurs in s starting at position i.
OccursAt(s, i, pat) ==
  /\ i + Len(pat) - 1 <= Len(s)
  /\ \A k \in 1..Len(pat) : s[i + k - 1] = pat[k]

Contains(s, pat) == \E i \in 1..Len(s) : OccursAt(s, i, pat)

EndsWith(s, suffix) ==
  /\ Len(suffix) <= Len(s)
  /\ OccursAt(s, Len(s) - Len(suffix) + 1, suffix)

\* String.prototype.trim
trim(s) ==
  LET keep == {i \in 1..Len(s) : s[i] \notin WhiteSpace}
  IN  IF keep = {} THEN <<>>
      ELSE Sub(s, Min(keep), CHOOSE m \in keep : \A n \in keep : n <= m)

\* String.prototype.replace with a global pattern that is a literal string:
\* the occurrences are taken from the left and do not overlap.
RECURSIVE ReplaceFrom(_, _, _, _)
ReplaceFrom(s, i, pat, rep) ==
  LET hits == {k \in i..Len(s) : OccursAt(s, k, pat)}
  IN  IF hits = {} THEN Sub(s, i, Len(s))
      ELSE Sub(s, i, Min(hits) - 1) \o rep
             \o ReplaceFrom(s, Min(hits) + Len(pat), pat, rep)

ReplaceAll(s, pat, rep) == ReplaceFrom(s, 1, pat, rep)

\* String.prototype.split with a one-character separator.
RECURSIVE SplitFrom(_, _, _)
SplitFrom(s, i, sep) ==
  LET hits == {k \in i..Len(s) : s[k] = sep}
  IN  IF hits = {} THEN <<Sub(s, i, Len(s))>>
      ELSE <<Sub(s, i, Min(hits) - 1)>> \o SplitFrom(s, Min(hits) + 1, sep)

split(s, sep) == SplitFrom(s, 1, sep)

\* Array.prototype.slice(1)
slice1(a) == IF a = <<>> THEN <<>> ELSE Tail(a)

-----------------------------------------------------------------------------
(* isImageLink *)

UpperCaseLetters ==
  <<"A", "B", "C", "D", "E", "F", "G", "H", "I", "J", "K", "L", "M",
    "N", "O", "P", "Q", "R", "S", "T", "U", "V", "W", "X", "Y", "Z">>
LowerCaseLetters ==
  <<"a", "b", "c", "d", "e", "f", "g", "h", "i", "j", "k", "l", "m",
    "n", "o", "p", "q", "r", "s", "t", "u", "v", "w", "x", "y", "z">>

LowerOf(c) ==
  IF \E k \in 1..26 : UpperCaseLetters[k] = c
  THEN LowerCaseLetters[CHOOSE k \in 1..26 : UpperCaseLetters[k] = c]
  ELSE c

\* String.prototype.toLowerCase
toLowerCase(s) == [i \in 1..Len(s) |-> LowerOf(s[i])]

imageExtensions ==
  {<<".", "p", "n", "g">>,
   <<".", "j", "p", "g">>,
   <<".", "j", "p", "e", "g">>,
   <<".", "g", "i", "f">>,
   <<".", "w", "e", "b", "p">>,
   <<".", "b", "m", "p">>,
   <<".", "s", "v", "g">>}

HTTP == <<"h", "t", "t", "p", ":", "/", "/">>
HTTPS == <<"h", "t", "t", "p", "s", ":", "/", "/">>

\* The length of the scheme and "//" that starts at position i of s, 0 if
\* neither http:// nor https:// starts there.
SchemeLenAt(s, i) ==
  IF OccursAt(s, i, HTTPS) THEN Len(HTTPS)
  ELSE IF OccursAt(s, i, HTTP) THEN Len(HTTP)
  ELSE 0

Digits == {"0", "1", "2", "3", "4", "5", "6", "7", "8", "9"}

\* The URL Standard's forbidden host code points.
ForbiddenHostCodePoints ==
  {" ", "\t", "\n", "\r", "#", "/", ":", "<", ">", "?", "@", "[", "\\", "]",
   "^", "|", "%"}

\* The URL Standard's percent-encoding of a path character.
PathEncode(c) ==
  CASE c = "\"" -> <<"%", "2", "2">>
    [] c = "<" -> <<"%", "3", "C">>
    [] c = ">" -> <<"%", "3", "E">>
    [] OTHER -> <<c>>

EncodePath(s) == Concat([k \in 1..Len(s) |-> PathEncode(s[k])])

\* The URL Standard's path state over the segments of a path: "." and ".."
\* segments are resolved, a last "." or ".." leaves an empty last segment.
RECURSIVE PathSegments(_, _, _)
PathSegments(segs, k, acc) ==
  IF k > Len(segs) THEN acc
  ELSE LET seg == segs[k]
           last == k = Len(segs)
           popped == IF acc = <<>> THEN <<>> ELSE Sub(acc, 1, Len(acc) - 1)
       IN  IF seg = <<".", ".">>
           THEN PathSegments(segs, k + 1, IF last THEN Append(popped, <<>>) ELSE popped)
           ELSE IF seg = <<".">>
           THEN PathSegments(segs, k + 1, IF last THEN Append(acc, <<>>) ELSE acc)
           ELSE PathSegments(segs, k + 1, Append(acc, EncodePath(seg)))

RECURSIVE SerializePath(_)
SerializePath(segs) ==
  IF segs = <<>> THEN <<>> ELSE <<"/">> \o Head(segs) \o SerializePath(Tail(segs))

\* new URL(url) for a url that starts with http:// or https:// and holds no
\* white space, no "@", no "[" and no "\": [ok |-> FALSE] when the
\* constructor throws, the pathname otherwise.  Slashes after the scheme's
\* "//" are skipped; the authority runs to the first "/", "?" or "#"; the
\* host is the authority up to its first ":" and the port what follows.
URLParse(url) ==
  LET n == SchemeLenAt(url, 1)
      hostStarts == {k \in (n + 1)..Len(url) : url[k] # "/"}
  IN  IF n = 0 \/ hostStarts = {} THEN [ok |-> FALSE]
      ELSE
        LET a == Min(hostStarts)
            stops == {k \in a..Len(url) : url[k] \in {"/", "?", "#"}}
            authEnd == IF stops = {} THEN Len(url) ELSE Min(stops) - 1
            colons == {k \in a..authEnd : url[k] = ":"}
            hostEnd == IF colons = {} THEN authEnd ELSE Min(colons) - 1
            host == Sub(url, a, hostEnd)
            port == Sub(url, hostEnd + 2, authEnd)
            pathStops == {k \in (authEnd + 1)..Len(url) : url[k] \in {"?",
                "#"}}
            pathEnd == IF pathStops = {} THEN Len(url) ELSE Min(pathStops) - 1
            rawPath == Sub(url, authEnd + 2, pathEnd)
        IN  IF \/ host = <<>>
               \/ \E k \in 1..Len(host) : host[k] \in ForbiddenHostCodePoints
               \/ \E k \in 1..Len(port) : port[k] \notin Digits
            THEN [ok |-> FALSE]
            ELSE [ok |-> TRUE,
                  pathname |-> SerializePath(PathSegments(split(rawPath, "/"), 1, <<>>))]

\* A variant that tests the whole token, not the path of the parsed URL.
isImageLinkWholeUrl(url) ==
  \E ext \in imageExtensions : EndsWith(toLowerCase(url), ext)

isImageLink(url) ==
  LET parsed == URLParse(url)
  IN  /\ parsed.ok
      /\ \E ext \in imageExtensions : EndsWith(toLowerCase(parsed.pathname), ext)

-----------------------------------------------------------------------------
(* formatLinks *)

\* The literal pieces of the templates of lines 65, 69 and 72.
P_OPEN == "<p>&ThickSpace;"
P_CLOSE == "</p>"
A_OPEN == "<a href=\""
A_MID == "\" target=\"_blank\">"
A_CLOSE == "</a>"
IMG_OPEN == "<img class=\"mt-4 border border-green-200 shadow-glow block\" src=\""
IMG_MID == "\" alt=\"image from "
IMG_CLOSE == "\">"

Markup == {P_OPEN, P_CLOSE, A_OPEN, A_MID, A_CLOSE, IMG_OPEN, IMG_MID, IMG_CLOSE}

\* The last position of the match of /https?:\/\/[^\s]+/ that starts at
\* position i of s, 0 if none starts there: the scheme, then the longest run
\* of characters that are not white space, at least one.
UrlEndAt(s, i) ==
  LET n == SchemeLenAt(s, i)
      spaces == {k \in (i + n)..Len(s) : s[k] \in WhiteSpace}
  IN  IF n = 0 \/ i + n > Len(s) \/ s[i + n] \in WhiteSpace THEN 0
      ELSE IF spaces = {} THEN Len(s)
      ELSE Min(spaces) - 1

\* The template of line 65.
ImageTag(url) == <<IMG_OPEN>> \o url \o <<IMG_MID>> \o url \o <<IMG_CLOSE>>

\* A variant that puts the image where the URL stood.
AnchorOrInlineImage(url) ==
  IF isImageLink(url) THEN ImageTag(url)
  ELSE <<A_OPEN>> \o url \o <<A_MID>> \o url \o <<A_CLOSE>>

\* The template of line 69.
Anchor(url) == <<A_OPEN>> \o url \o <<A_MID>> \o url \o <<A_CLOSE>>

\* message.replace(urlRegex, callback): the text with every match replaced
\* by what the callback returns, scanning from position i.
RECURSIVE ReplaceUrls(_, _)
ReplaceUrls(s, i) ==
  LET hits == {k \in i..Len(s) : UrlEndAt(s, k) > 0}
  IN  IF hits = {} THEN Sub(s, i, Len(s))
      ELSE LET at == Min(hits)
               end == UrlEndAt(s, at)
           IN  Sub(s, i, at - 1) \o Anchor(Sub(s, at, end)) \o ReplaceUrls(s, end + 1)

\* What the callback pushed to images, in the order of the matches.
RECURSIVE CollectImages(_, _)
CollectImages(s, i) ==
  LET hits == {k \in i..Len(s) : UrlEndAt(s, k) > 0}
  IN  IF hits = {} THEN <<>>
      ELSE LET at == Min(hits)
               end == UrlEndAt(s, at)
               url == Sub(s, at, end)
           IN  (IF isImageLink(url) THEN <<ImageTag(url)>> ELSE <<>>)
                 \o CollectImages(s, end + 1)

formatLinks(m) ==
  LET images == CollectImages(m, 1)
      formattedMessage == <<P_OPEN>> \o ReplaceUrls(m, 1) \o <<P_CLOSE>>
  IN  IF Len(images) > 0 THEN formattedMessage \o Concat(images)
      ELSE formattedMessage

-----------------------------------------------------------------------------
(* formatTimeline *)

\* The delimiter and its mangled encoding (timeline.ts line 84).
Glyph == "U27A4"
Mangled == <<"U00E2", "U017E", "U00A4">>

NoLineTerminator(s, a, b) == \A k \in a..b : s[k] \notin LineTerminators

\* The ends j of the second group (.*?) of the pattern, once the first group
\* ends at i: entry[i+1] is \s, entry[i+2] is "(", the group is
\* entry[i+3..j], then come ")", ":", \s and at least one more character.
TimeEnds(entry, i) ==
  {j \in (i + 2)..Len(entry) :
     /\ NoLineTerminator(entry, i + 3, j)
     /\ j + 4 <= Len(entry)
     /\ entry[j + 1] = ")"
     /\ entry[j + 2] = ":"
     /\ entry[j + 3] \in WhiteSpace}

\* The ends i of the first group (.*?) for which the whole pattern matches.
UserEnds(entry) ==
  {i \in 0..Len(entry) :
     /\ NoLineTerminator(entry, 1, i)
     /\ i + 2 <= Len(entry)
     /\ entry[i + 1] \in WhiteSpace
     /\ entry[i + 2] = "("
     /\ TimeEnds(entry, i) # {}}

\* A variant whose first group is greedy, (.*), and takes the longest text.
EntryMatchGreedy(entry) ==
  IF UserEnds(entry) = {} THEN [matched |-> FALSE]
  ELSE LET i == CHOOSE m \in UserEnds(entry) : \A n \in UserEnds(entry) : n <= m
           j == Min(TimeEnds(entry, i))
       IN  [matched |-> TRUE,
            user |-> Sub(entry, 1, i),
            time |-> Sub(entry, i + 3, j),
            message |-> Sub(entry, j + 4, Len(entry))]

\* entry.match(/^(.*?)\s\((.*?)\):\s([\s\S]+)/): both lazy groups take the
\* shortest text that lets the rest of the pattern match.
EntryMatch(entry) ==
  IF UserEnds(entry) = {} THEN [matched |-> FALSE]
  ELSE LET i == Min(UserEnds(entry))
           j == Min(TimeEnds(entry, i))
       IN  [matched |-> TRUE,
            user |-> Sub(entry, 1, i),
            time |-> Sub(entry, i + 3, j),
            message |-> Sub(entry, j + 4, Len(entry))]

Null == [null |-> TRUE]

\* The callback of entries.map: a TimelineEntry, or null.
MapEntry(entry) ==
  LET match == EntryMatch(entry)
  IN  IF match.matched
      THEN [user |-> trim(match.user),
            time |-> trim(match.time),
            message |-> trim(formatLinks(match.message))]
      ELSE Null

\* A variant that stops at the first null.
TakeUntilNull(a) ==
  LET nulls == {k \in 1..Len(a) : a[k] = Null}
  IN  IF nulls = {} THEN a ELSE Sub(a, 1, Min(nulls) - 1)

\* .filter(entry => entry !== null)
FilterNull(a) == SelectSeq(a, LAMBDA e : e # Null)

Placeholder ==
  [user |-> <<"e", "r", "r", "o", "r", "!">>,
   time |-> <<>>,
   message |-> <<"no valid entries found. ig you haven't posted anything">>]

\* A variant without the g flag: only the first occurrence is replaced.
cleanTimelineFirstOnly(t) ==
  LET hits == {k \in 1..Len(t) : OccursAt(t, k, Mangled)}
  IN  IF hits = {} THEN t
      ELSE Sub(t, 1, Min(hits) - 1) \o <<Glyph>>
             \o Sub(t, Min(hits) + Len(Mangled), Len(t))

\* timeline.replace(/.../g, ...) of line 84.
cleanTimeline(t) == ReplaceAll(t, Mangled, <<Glyph>>)

\* A variant that returns the empty array as it is.
formatTimelineNoPlaceholder(t) ==
  LET chunks == slice1(split(cleanTimeline(t), Glyph))
  IN  FilterNull([k \in 1..Len(chunks) |-> MapEntry(chunks[k])])

formatTimeline(t) ==
  LET cleanedTimeline == cleanTimeline(t)
      chunks == slice1(split(cleanedTimeline, Glyph))
      formattedEntries == FilterNull([k \in 1..Len(chunks) |-> MapEntry(chunks[k])])
  IN  IF Len(formattedEntries) > 0 THEN formattedEntries ELSE <<Placeholder>>

-----------------------------------------------------------------------------
(* Messages: how the inputs of formatLinks are put together *)

\* A message is put together from parts: runs of text and URLs.  A URL is
\* put together from a scheme, a host (with or without a port), a path, a
\* query and a fragment.  ok says whether the host is one the URL Standard
\* accepts, image whether the path ends in an image extension: both are
\* known from how the part was written, not from parsing it.
Schemes == {HTTP, HTTPS}

Hosts ==
  {[text |-> <<"h", ".", "i", "o">>, ok |-> TRUE],
   [text |-> <<"c", ".", "p", "n", "g">>, ok |-> TRUE],
   [text |-> <<"h", ".", "i", "o", ":", "8", "0">>, ok |-> TRUE],
   [text |-> <<"a", "<", "b">>, ok |-> FALSE],
   [text |-> <<"h", ".", "i", "o", ":", "x">>, ok |-> FALSE]}

Paths ==
  {[text |-> <<>>, image |-> FALSE],
   [text |-> <<"/">>, image |-> FALSE],
   [text |-> <<"/", "c", ".", "p", "n", "g">>, image |-> TRUE],
   [text |-> <<"/", "C", ".", "P", "n", "G">>, image |-> TRUE],
   [text |-> <<"/", "c", ".", "p", "n", "g", "/">>, image |-> FALSE],
   [text |-> <<"/", "c", "p", "n", "g">>, image |-> FALSE],
   [text |-> <<"/", "d", "/", "a", ".", "j", "p", "e", "g">>, image |-> TRUE],
   [text |-> <<"/", "a", ".", "j", "p", "g">>, image |-> TRUE],
   [text |-> <<"/", "a", ".", "g", "i", "f">>, image |-> TRUE],
   [text |-> <<"/", "a", ".", "w", "e", "b", "p">>, image |-> TRUE],
   [text |-> <<"/", "a", ".", "b", "m", "p">>, image |-> TRUE],
   [text |-> <<"/", "x", "/", ".", ".", "/", "a", ".", "s", "v", "g">>,
       image |-> TRUE],
   [text |-> <<"/", "c", ".", "g", "i", "f", "/", ".">>, image |-> FALSE],
   [text |-> <<"/", "a", ".", "p", "n", "g", "x">>, image |-> FALSE],
   [text |-> <<"/", "p">>, image |-> FALSE],
   [text |-> <<"/", "\"", "<", ".", "p", "n", "g">>, image |-> TRUE]}

Queries ==
  {<<>>, <<"?", "v", "=", "1">>, <<"?", "f", "=", ".", "p", "n", "g">>}

Fragments ==
  {<<>>, <<"#", "t", "o", "p">>, <<"#", "x", ".", "p", "n", "g">>}

UrlPart(scheme, host, path, query, fragment) ==
  [kind |-> "url",
   text |-> scheme \o host.text \o path.text \o query \o fragment,
   ok |-> host.ok,
   image |-> host.ok /\ path.image]

TextPart(text) == [kind |-> "text", text |-> text, ok |-> FALSE, image |-> FALSE]

\* Every URL the catalogues give.
AllUrlParts ==
  {UrlPart(s, h, p, q, f) : s \in Schemes, h \in Hosts, p \in Paths,
                            q \in Queries, f \in Fragments}

\* An image, a page, a URL with no host (new URL throws) whose query looks
\* like an image, and a URL that carries markup characters.
ImageUrl == UrlPart(HTTPS, [text |-> <<"h", ".", "i", "o">>, ok |-> TRUE],
                    [text |-> <<"/", "c", "a", "t", ".", "p", "n", "g">>,
                        image |-> TRUE], <<>>, <<>>)
PageUrl == UrlPart(HTTP, [text |-> <<"h", ".", "i", "o">>, ok |-> TRUE],
                   [text |-> <<"/", "p">>, image |-> FALSE], <<>>, <<>>)
NoHostUrl == UrlPart(HTTP, [text |-> <<>>, ok |-> FALSE],
                     [text |-> <<>>, image |-> FALSE], <<"?", "c", ".", "p",
                         "n", "g">>, <<>>)
QuoteUrl == UrlPart(HTTP, [text |-> <<"h", ".", "i", "o">>, ok |-> TRUE],
                    [text |-> <<"/", "\"", "o", "n", "c", "l", "i", "c",
                        "k", "=", "\"", "x">>, image |-> FALSE], <<>>, <<>>)

FewUrlParts == {ImageUrl, PageUrl, NoHostUrl, QuoteUrl}

\* Text before a URL, text after a URL (it starts with white space, which
\* ends the URL), and text with markup characters.
TextBefore == TextPart(<<"c", "h", "e", "c", "k", " ", "t", "h", "i", "s",
    " ">>)
TextAfter == TextPart(<<" ", "o", "u", "t">>)
TextMarkup == TextPart(<<"<", "b", ">">>)
TextAmp == TextPart(<<" ", "&", " ">>)

FewTextParts == {TextBefore, TextAfter, TextMarkup, TextAmp}

\* A URL runs to the next white space: the part after a URL is the end of
\* the message or text that starts with white space.
WellJoined(ps) ==
  \A k \in 1..(Len(ps) - 1) :
    ps[k].kind = "url" =>
      /\ ps[k + 1].kind = "text"
      /\ ps[k + 1].text # <<>>
      /\ ps[k + 1].text[1] \in WhiteSpace

SeqsUpTo(S, n) == UNION {[1..k -> S] : k \in 0..n}

MessageInputs ==
  {ps \in SeqsUpTo(FewUrlParts \cup FewTextParts, MaxParts) : WellJoined(ps)}
    \cup {<<u>> : u \in AllUrlParts}
    \cup {<<TextBefore, u, TextAfter>> : u \in AllUrlParts}

RECURSIVE JoinParts(_)
JoinParts(ps) == IF ps = <<>> THEN <<>> ELSE Head(ps).text \o JoinParts(Tail(ps))

-----------------------------------------------------------------------------
(* formatLinks applied to a message *)

Idle == "-"

InitLinks ==
  /\ pc = "start"
  /\ parts \in MessageInputs
  /\ message = JoinParts(parts)
  /\ formatted = <<>>
  /\ pieces = Idle /\ timeline = Idle /\ entries = Idle /\ response = Idle
  /\ mainWindow = Idle /\ winState = Idle /\ maximized = Idle /\ ipc = Idle
  /\ platform = Idle /\ app = Idle /\ lastCall = Idle

FormatLinks ==
  /\ pc = "start"
  /\ formatted' = formatLinks(message)
  /\ pc' = "done"
  /\ UNCHANGED <<parts, message, timelineVars, response, windowVars>>

NextLinks == FormatLinks

SpecLinks == InitLinks /\ [][NextLinks]_vars

-----------------------------------------------------------------------------
(* Reading a formatted message back *)

RECURSIVE SortedSeq(_)
SortedSeq(S) == IF S = {} THEN <<>> ELSE <<Min(S)>> \o SortedSeq(S \ {Min(S)})

\* What stands between the element at position a and the next closer.
Between(out, a, closer) ==
  Sub(out, a + 1, Min({k \in (a + 1)..Len(out) : out[k] = closer}) - 1)

\* What the opener..closer groups of out hold, in order.
GroupsOf(out, opener, closer) ==
  LET at == SortedSeq({k \in 1..Len(out) : out[k] = opener})
  IN  [i \in 1..Len(at) |-> Between(out, at[i], closer)]

AnchorHrefs(out) == GroupsOf(out, A_OPEN, A_MID)
AnchorTexts(out) == GroupsOf(out, A_MID, A_CLOSE)
ImageSrcs(out) == GroupsOf(out, IMG_OPEN, IMG_MID)

\* The text a reader sees: every link replaced by its text.
Unlink(out) ==
  LET hidden(k) ==
        \/ out[k] \in {A_OPEN, A_MID, A_CLOSE}
        \/ \E a \in 1..(k - 1) :
             /\ out[a] = A_OPEN
             /\ \A j \in a..k : out[j] # A_MID
      shown == SortedSeq({k \in 1..Len(out) : ~hidden(k)})
  IN  [i \in 1..Len(shown) |-> out[shown[i]]]

\* The paragraph's content, and what follows the paragraph.
ParagraphEnd(out) == Min({k \in 1..Len(out) : out[k] = P_CLOSE})
Body(out) == Sub(out, 2, ParagraphEnd(out) - 1)
Gallery(out) == Sub(out, ParagraphEnd(out) + 1, Len(out))

\* The URLs and the image URLs a message was put together from, in order.
UrlsOf(ps) == LET us == SelectSeq(ps, LAMBDA q : q.kind = "url")
              IN  [i \in 1..Len(us) |-> us[i].text]
ImagesOf(ps) == LET us == SelectSeq(ps, LAMBDA q : q.image)
                IN  [i \in 1..Len(us) |-> us[i].text]

\* The element at position k stands in an attribute value: the template
\* piece before it opened one (href, src or alt).
InAttribute(out, k) ==
  LET before == {j \in 1..(k - 1) : out[j] \in Markup}
  IN  /\ before # {}
      /\ out[CHOOSE j \in before : \A h \in before : h <= j] \in {A_OPEN, IMG_OPEN, IMG_MID}

-----------------------------------------------------------------------------
(* Claims about formatLinks *)

\* C5: formatLinks lets no markup character of the message through where it
\* acts as markup: the output holds no "<" copied from the message outside
\* an attribute value (there it opens a tag) and no double quote copied from
\* the message inside an attribute value (there it closes the attribute).
C5_NoInjection ==
  pc = "done" =>
    \A k \in 1..Len(formatted) :
      /\ ~(formatted[k] = "<" /\ ~InAttribute(formatted, k))
      /\ ~(formatted[k] = "\"" /\ InAttribute(formatted, k))

\* C6: every URL of the message is emitted as a link, whether it parses or
\* not, and the image tags are exactly those of the URLs that parse and whose
\* path (not query, not fragment) ends in an image extension, in any case of
\* letters.
C6_ImageIffPathExtension ==
  pc = "done" =>
    /\ AnchorHrefs(formatted) = UrlsOf(parts)
    /\ ImageSrcs(formatted) = ImagesOf(parts)

C6_Witness ==
  /\ pc = "done"
  /\ \E k \in 1..Len(parts) :
       /\ parts[k].kind = "url" /\ ~parts[k].ok
       /\ Contains(parts[k].text, <<".", "p", "n", "g">>)
  /\ Len(AnchorHrefs(formatted)) = 1
  /\ ImageSrcs(formatted) = <<>>

\* C7: the paragraph holds the message as written, each URL as a link in its
\* place and no image; the images follow the paragraph, one per image URL in
\* the order of the message; a message without URL comes back unchanged
\* inside the paragraph, with no image.
C7_ImagesAfterText ==
  pc = "done" =>
    /\ formatted[1] = P_OPEN
    /\ Unlink(Body(formatted)) = message
    /\ AnchorTexts(Body(formatted)) = UrlsOf(parts)
    /\ \A k \in 1..Len(Body(formatted)) :
         Body(formatted)[k] \notin {IMG_OPEN, IMG_MID, IMG_CLOSE, P_OPEN}
    /\ Gallery(formatted) =
         Concat([i \in 1..Len(ImagesOf(parts)) |-> ImageTag(ImagesOf(parts)[i])])
    /\ (UrlsOf(parts) = <<>> =>
          formatted = <<P_OPEN>> \o message \o <<P_CLOSE>>)

C7_Witness ==
  /\ pc = "done"
  /\ parts = <<TextBefore, ImageUrl, TextAfter>>
  /\ Gallery(formatted) = ImageTag(ImageUrl.text)
  /\ Body(formatted) = TextBefore.text \o Anchor(ImageUrl.text) \o TextAfter.text

-----------------------------------------------------------------------------
(* Feeds: how the inputs of formatTimeline are put together *)

\* A feed is a preamble followed by entries; an entry is the delimiter, as
\* such or in its mangled encoding, followed by a chunk of text.  kind says
\* what shape the chunk was written in: "paren" for user (time): message,
\* "tab" for timestamp<TAB>message, "junk" for neither.  user, time and msg
\* are what the chunk was written from; reply is the token of the reply
\* marker the message starts with, if any.
ParenChunk(lead, user, pad, time, sep, msg, reply) ==
  [kind |-> "paren",
   text |-> lead \o user \o <<" ", "(">> \o pad \o time \o pad \o <<")", ":">>
              \o sep \o msg,
   user |-> user, time |-> time, msg |-> msg, reply |-> reply]

TabChunk(lead, time, msg) ==
  [kind |-> "tab", text |-> lead \o time \o <<"\t">> \o msg,
   user |-> <<>>, time |-> time, msg |-> msg, reply |-> <<>>]

JunkChunk(text) ==
  [kind |-> "junk", text |-> text,
   user |-> <<>>, time |-> <<>>, msg |-> <<>>, reply |-> <<>>]

\* What twtxt's timeline command prints for a post.
PlainPost == ParenChunk(<<" ">>, <<"b", "o", "b">>, <<>>, <<"1", "h">>,
    <<"\n">>, <<"h", "i", "\n", "\n">>, <<>>)
\* A post with an image URL, white space inside the parentheses.
ImagePost == ParenChunk(<<>>, <<"a", "m", "y">>, <<" ">>, <<"2", " ", "d">>,
    <<" ">>, <<"s", "e", "e", " ", "h", "t", "t", "p", "s", ":", "/", "/",
    "h", ".", "i", "o", "/", "c", "a", "t", ".", "p", "n", "g">>, <<>>)
\* A reply: the message starts with a reply marker.
ReplyPost == ParenChunk(<<" ">>, <<"b", "o", "b">>, <<>>, <<"1", "h">>,
    <<" ">>, <<"(", "#", "a", "b", "c", "1", "2", "3", "4", ")", " ", "t",
    "h", "a", "n", "k", "s", "!">>, <<"a", "b", "c", "1", "2", "3", "4">>)
\* A message of several lines that holds the pattern of a header itself.
TrickyPost == ParenChunk(<<" ">>, <<"a", "l", " ", "i", "c", "e">>, <<>>,
    <<"3", "m">>, <<"\t">>, <<"a", " ", "(", "b", ")", ":", " ", "c", "\n",
    "d">>, <<>>)

ParenChunks == {PlainPost, ImagePost, ReplyPost, TrickyPost}

\* A line of a twtxt.txt file.
TabPost == TabChunk(<<" ">>, <<"2", "0", "2", "4", "-", "0", "1", "-", "0",
    "1", "T", "1", "2", ":", "0", "0", ":", "0", "0", "Z">>, <<"H", "e",
    "l", "l", "o">>)

\* A line that is no post.
JunkLine == JunkChunk(<<" ", "j", "u", "n", "k", "\n">>)

JunkChunks ==
  {JunkLine,
   JunkChunk(<<" ", "b", "o", "b", " ", "(", "1", "h", ")", ":", " ">>),
   JunkChunk(<<"x", "\n", "y", " ", "(", "1", "h", ")", ":", " ", "h", "i">>),
   JunkChunk(<<" ", "U00E2", "U017E", " ", "b", "o", "b", "(", "1", "h",
       ")", ":", " ", "h", "i">>)}

Chunks == ParenChunks \cup {TabPost} \cup JunkChunks

Preambles ==
  {<<>>,
   <<"#", " ", "n", "i", "c", "k", " ", "=", " ", "b", "o", "b", "\n">>,
   <<"2", "0", "2", "4", "-", "0", "1", "-", "0", "1", "T", "1", "2", ":",
       "0", "0", ":", "0", "0", "Z", "\t", "H", "e", "l", "l", "o", "\n">>}

GlyphKinds == {"canonical", "mangled"}

\* The chunks of the longer feeds.
FewChunks == {PlainPost, TrickyPost, TabPost, JunkLine}

FeedInputs ==
  [preamble : Preambles,
   chunks : SeqsUpTo([glyph : GlyphKinds, chunk : Chunks], MaxEntries)]
    \cup
  [preamble : {<<>>},
   chunks : SeqsUpTo([glyph : GlyphKinds, chunk : FewChunks], MaxInterleaved)]

GlyphText(g) == IF g = "mangled" THEN Mangled ELSE <<Glyph>>

RECURSIVE JoinChunks(_)
JoinChunks(cs) ==
  IF cs = <<>> THEN <<>>
  ELSE GlyphText(Head(cs).glyph) \o Head(cs).chunk.text \o JoinChunks(Tail(cs))

BuildFeed(p) == p.preamble \o JoinChunks(p.chunks)

-----------------------------------------------------------------------------
(* formatTimeline applied to a feed *)

InitTimeline ==
  /\ pc = "start"
  /\ pieces \in FeedInputs
  /\ timeline = BuildFeed(pieces)
  /\ entries = <<>>
  /\ parts = Idle /\ message = Idle /\ formatted = Idle /\ response = Idle
  /\ mainWindow = Idle /\ winState = Idle /\ maximized = Idle /\ ipc = Idle
  /\ platform = Idle /\ app = Idle /\ lastCall = Idle

FormatTimeline ==
  /\ pc = "start"
  /\ entries' = formatTimeline(timeline)
  /\ pc' = "done"
  /\ UNCHANGED <<pieces, timeline, linkVars, response, windowVars>>

NextTimeline == FormatTimeline

SpecTimeline == InitTimeline /\ [][NextTimeline]_vars

-----------------------------------------------------------------------------
(* Claims about formatTimeline *)

\* The entries of the feed that were written in the given shapes, in order.
ChunksOfKind(p, kinds) ==
  LET cs == SelectSeq(p.chunks, LAMBDA c : c.chunk.kind \in kinds)
  IN  [k \in 1..Len(cs) |-> cs[k].chunk]

\* The feed with every entry that is not of the given shapes left out.
OnlyKinds(p, kinds) ==
  [preamble |-> p.preamble,
   chunks |-> SelectSeq(p.chunks, LAMBDA c : c.chunk.kind \in kinds)]

\* The feed with every delimiter written as such.
Canonical(p) ==
  [preamble |-> p.preamble,
   chunks |-> [k \in 1..Len(p.chunks) |->
                 [glyph |-> "canonical", chunk |-> p.chunks[k].chunk]]]

\* The entry a chunk is expected to give: its parts as written.
EntryOf(c) == [user |-> c.user, time |-> c.time, message |-> formatLinks(c.msg)]

\* C1: formatTimeline never returns an empty sequence: with no entry that
\* parses the result is the placeholder alone, and with one that parses the
\* placeholder is not in the result.
C1_PlaceholderIffNothingParsed ==
  pc = "done" =>
    /\ entries # <<>>
    /\ (ChunksOfKind(pieces, {"paren"}) = <<>> => entries = <<Placeholder>>)
    /\ (ChunksOfKind(pieces, {"paren"}) # <<>> =>
          \A k \in 1..Len(entries) : entries[k] # Placeholder)

C1_Witness ==
  /\ pc = "done"
  /\ pieces.chunks = <<>>
  /\ pieces.preamble # <<>>
  /\ pieces.preamble[1] = "#"
  /\ entries = <<Placeholder>>

\* C2: entries that match no shape are skipped: the result is what the feed
\* gives with these entries left out, one entry per entry that parses.
C2_MalformedSkipped ==
  pc = "done" =>
    /\ entries = formatTimeline(BuildFeed(OnlyKinds(pieces, {"paren"})))
    /\ (ChunksOfKind(pieces, {"paren"}) # <<>> =>
          Len(entries) = Len(ChunksOfKind(pieces, {"paren"})))

C2_Witness ==
  /\ pc = "done"
  /\ Len(pieces.chunks) = 3
  /\ pieces.chunks[1].chunk = PlainPost
  /\ pieces.chunks[2].chunk = JunkLine
  /\ pieces.chunks[3].chunk = TrickyPost
  /\ entries = <<EntryOf(PlainPost), EntryOf(TrickyPost)>>

C8_MangledDelimiterNormalized ==
  pc = "done" => entries = formatTimeline(BuildFeed(Canonical(pieces)))

C8_Witness ==
  /\ pc = "done"
  /\ Len(pieces.chunks) = 2
  /\ \A k \in 1..2 : pieces.chunks[k].glyph = "mangled"
  /\ \A k \in 1..2 : pieces.chunks[k].chunk.kind = "paren"
  /\ Len(entries) = 2

\* The reply marker a message starts with: "(#", the token, ")".
ReplyMarker(token) == <<"(", "#">> \o token \o <<")">>

\* C9: an entry whose message starts with a reply marker carries the token
\* as its replySubject, and its formatted message does not hold the marker.
C9_ReplySubjectLifted ==
  pc = "done" =>
    LET shaped == ChunksOfKind(pieces, {"paren"})
    IN  \A k \in 1..Len(shaped) :
          shaped[k].reply # <<>> =>
            /\ k <= Len(entries)
            /\ "replySubject" \in DOMAIN entries[k]
            /\ entries[k].replySubject = shaped[k].reply
            /\ ~Contains(entries[k].message, ReplyMarker(shaped[k].reply))

-----------------------------------------------------------------------------
(* fetchTimeline, and the caller that formats what it returns *)

FailedStatusText ==
  <<"F", "a", "i", "l", "e", "d", " ", "t", "o", " ", "f", "e", "t", "c",
      "h", " ", "t", "i", "m", "e", "l", "i", "n", "e", ".">>

FailedErrorText ==
  <<"F", "a", "i", "l", "e", "d", " ", "t", "o", " ", "f", "e", "t", "c",
      "h", " ", "t", "i", "m", "e", "l", "i", "n", "e", " ", "d", "u", "e",
      " ", "t", "o", " ", "a", "n", " ", "e", "r", "r", "o", "r", ".">>

\* What a server may answer with.
Bodies ==
  {BuildFeed(p) : p \in [preamble : Preambles,
                         chunks : SeqsUpTo([glyph : GlyphKinds, chunk : Chunks], 1)]}
    \cup {FailedStatusText, FailedErrorText}

\* What fetch(url) and response.text() do: throws says that one of them
\* rejects, ok is response.ok, body the text of the response.
Responses == [throws : BOOLEAN, ok : BOOLEAN, body : Bodies]

fetchTimeline(r) ==
  IF r.throws THEN FailedErrorText
  ELSE IF ~r.ok THEN FailedStatusText
  ELSE r.body

InitFetch ==
  /\ pc = "start"
  /\ response \in Responses
  /\ timeline = <<>>
  /\ entries = <<>>
  /\ pieces = Idle /\ parts = Idle /\ message = Idle /\ formatted = Idle
  /\ mainWindow = Idle /\ winState = Idle /\ maximized = Idle /\ ipc = Idle
  /\ platform = Idle /\ app = Idle /\ lastCall = Idle

FetchTimeline ==
  /\ pc = "start"
  /\ timeline' = fetchTimeline(response)
  /\ pc' = "fetched"
  /\ UNCHANGED <<pieces, entries, linkVars, response, windowVars>>

\* The caller hands the text it got to formatTimeline.
RenderTimeline ==
  /\ pc = "fetched"
  /\ entries' = formatTimeline(timeline)
  /\ pc' = "done"
  /\ UNCHANGED <<pieces, timeline, linkVars, response, windowVars>>

NextFetch == FetchTimeline \/ RenderTimeline

SpecFetch == InitFetch /\ [][NextFetch]_vars

\* C4: a fetch that failed gives the caller a value that no fetch that
\* succeeded gives, and is not rendered as a feed without entries.
C4_FailureDistinguishable ==
  (pc \in {"fetched", "done"} /\ (response.throws \/ ~response.ok)) =>
    /\ timeline \notin {r.body : r \in {q \in Responses : ~q.throws /\ q.ok}}
    /\ (pc = "done" => entries # <<Placeholder>>)

-----------------------------------------------------------------------------
(* The window and the IPC handlers of main.cjs *)

Channels ==
  {"get-window-state", "reload-window", "window-minimize", "window-maximize",
   "window-close"}

Platforms == {"darwin", "linux", "win32"}

\* No method of mainWindow was called.
NoCall == [method |-> "none", on |-> "-"]

\* After app.whenReady(): createWindow has run, the handlers are registered.
InitWindow ==
  /\ pc = "window"
  /\ mainWindow = "window"
  /\ winState = "open"
  /\ maximized = FALSE
  /\ ipc = <<>>
  /\ platform \in Platforms
  /\ app = "running"
  /\ lastCall = NoCall
  /\ pieces = Idle /\ timeline = Idle /\ entries = Idle /\ response = Idle
  /\ parts = Idle /\ message = Idle /\ formatted = Idle

pipelineVars == <<pc, timelineVars, linkVars, response>>

\* A call of a method of mainWindow: on the window, on null (a TypeError)
\* or on the destroyed window (Electron throws "Object has been destroyed").
CallOn(method) ==
  [method |-> method,
   on |-> IF mainWindow = "null" THEN "null"
          ELSE IF winState = "destroyed" THEN "destroyed window"
          ELSE "window"]

\* mainWindow && !mainWindow.isDestroyed()
WindowAvailable == mainWindow # "null" /\ winState # "destroyed"

\* The renderer of the window sends a request.
RendererSend(channel) ==
  /\ app = "running"
  /\ winState = "open"
  /\ Len(ipc) < MaxInFlight
  /\ ipc' = Append(ipc, channel)
  /\ UNCHANGED <<mainWindow, winState, maximized, platform, app, lastCall, pipelineVars>>

\* The main process takes the next request off the queue.
Handles(channel) ==
  /\ app # "quit"
  /\ ipc # <<>>
  /\ Head(ipc) = channel
  /\ ipc' = Tail(ipc)

\* ipcMain.handle("get-window-state"): mainWindow.isMaximized() is called
\* whatever mainWindow is.
GetWindowState ==
  /\ Handles("get-window-state")
  /\ lastCall' = CallOn("isMaximized")
  /\ UNCHANGED <<mainWindow, winState, maximized, platform, app, pipelineVars>>

ReloadWindow ==
  /\ Handles("reload-window")
  /\ lastCall' = IF WindowAvailable THEN CallOn("webContents.reload") ELSE NoCall
  /\ UNCHANGED <<mainWindow, winState, maximized, platform, app, pipelineVars>>

WindowMinimize ==
  /\ Handles("window-minimize")
  /\ lastCall' = IF WindowAvailable THEN CallOn("minimize") ELSE NoCall
  /\ UNCHANGED <<mainWindow, winState, maximized, platform, app, pipelineVars>>

WindowMaximize ==
  /\ Handles("window-maximize")
  /\ maximized' = IF WindowAvailable THEN ~maximized ELSE maximized
  /\ lastCall' = IF ~WindowAvailable THEN NoCall
                 ELSE IF maximized THEN CallOn("restore")
                 ELSE CallOn("maximize")
  /\ UNCHANGED <<mainWindow, winState, platform, app, pipelineVars>>

WindowClose ==
  /\ Handles("window-close")
  /\ winState' = IF WindowAvailable THEN "closing" ELSE winState
  /\ lastCall' = IF WindowAvailable THEN CallOn("close") ELSE NoCall
  /\ UNCHANGED <<mainWindow, maximized, platform, app, pipelineVars>>

\* The user closes the window with the controls of the system.
UserClose ==
  /\ app = "running"
  /\ winState = "open"
  /\ winState' = "closing"
  /\ UNCHANGED <<mainWindow, maximized, ipc, platform, app, lastCall, pipelineVars>>

\* The window is gone and its "closed" event runs the handler of line 58.
ClosedEvent ==
  /\ app = "running"
  /\ winState = "closing"
  /\ winState' = "destroyed"
  /\ mainWindow' = "null"
  /\ UNCHANGED <<maximized, ipc, platform, app, lastCall, pipelineVars>>

\* app.on("window-all-closed")
WindowAllClosed ==
  /\ app = "running"
  /\ winState = "destroyed"
  /\ app' = IF platform # "darwin" THEN "quit" ELSE "windowless"
  /\ UNCHANGED <<mainWindow, winState, maximized, ipc, platform, lastCall, pipelineVars>>

NextWindow ==
  \/ \E channel \in Channels : RendererSend(channel)
  \/ GetWindowState
  \/ ReloadWindow
  \/ WindowMinimize
  \/ WindowMaximize
  \/ WindowClose
  \/ UserClose
  \/ ClosedEvent
  \/ WindowAllClosed

SpecWindow == InitWindow /\ [][NextWindow]_vars

\* C10: no handler calls a method of mainWindow when mainWindow is null or
\* the window destroyed: a request that arrives after the window closed
\* does nothing and raises nothing.
C10_NoCallOnClosedWindow ==
  (pc = "window" /\ lastCall.method # "none") => lastCall.on = "window"

=============================================================================
